---- MODULE Spec2Model ----
(***************************************************************************)
(* Retrieval pipeline of the backend: the two-tier HybridVectorStore       *)
(* (rag/vector_store.py), the DocumentProcessor (rag/document_processor.py)*)
(* and the bulk ingestion node rag_load_data_from_gcs (rag/rag_graph.py),   *)
(* the EmbeddingService (rag/embeddings.py) and the RAG sub-graph of the   *)
(* agent (agent/rag_graph.py).                                             *)
(*                                                                         *)
(* Five specifications share the module's variables:                       *)
(*   SpecStore   add_documents / similarity_search on one store            *)
(*   SpecProc    DocumentProcessor.process on one processor                *)
(*   SpecIngest  one run of rag_load_data_from_gcs                         *)
(*   SpecEmbed   embed_texts, and add_documents with the vectors it stores *)
(*   SpecAgent   one invocation of the RAG sub-graph                       *)
(***************************************************************************)
EXTENDS Integers, Sequences, FiniteSets, TLC

\* ------------------------------------------------------------------ bounds
\* page_content values of the documents a store holds
MaxDoc == 2
\* documents one tier holds at most
MaxTier == 2
\* query values
MaxQuery == 2
\* largest requested result count k
MaxK == 3
\* documents in one add_documents call
MaxBatch == 2
\* characters of the text extracted from a PDF's first pages
MaxText == 2
\* chunks the splitter makes of one document
MaxChunks == 2
\* objects in the bucket of one ingestion run
MaxBlobs == 4
\* error messages in the state an ingestion run starts from
MaxPrior == 1
\* texts in one embed_texts call
MaxTexts == 3
\* messages in the state the agent graph is invoked with
MaxMessages == 2

VARIABLES
    hot_store,        \* HybridVectorStore._hot_store: its documents, in insertion order
    cold_store,       \* HybridVectorStore._cold_store: its documents (<<>> when None)
    cold_configured,  \* _cold_store is not None (DATABASE_URL was set at construction)
    cold_reachable,   \* whether a call on the cold store answers or raises
    storeLast,        \* the last call on the store and what it did
    storage_client,   \* DocumentProcessor.storage_client is not None
    tmp_files,        \* the temporary files that exist on the local disk
    procLast,         \* the last call of DocumentProcessor.process and what it did
    rag_config,       \* config["configurable"] and the environment of an ingestion run
    rag_state,        \* the RagGraphState the run is given, the caller's object
    ragLast,          \* the last run of rag_load_data_from_gcs and what it did
    model_name,       \* EmbeddingService.model_name
    embedding_dim,    \* length of the vectors the store's embedding function yields
    embeddings,       \* lengths of the vectors each tier holds, one per document
    embedLast,        \* the last call of embed_texts and what it did
    agent_pc,         \* where the invocation of the RAG sub-graph stands
    agent_state,      \* the OverallState of the invocation
    agent_trace       \* the nodes the invocation has run, in order

storeVars == <<hot_store, cold_store, cold_configured, cold_reachable, storeLast>>

procVars == <<storage_client, tmp_files, procLast>>

ragVars == <<rag_config, rag_state, ragLast>>

embedVars == <<model_name, embedding_dim, embeddings, embedLast>>

agentVars == <<agent_pc, agent_state, agent_trace>>

vars == <<hot_store, cold_store, cold_configured, cold_reachable, storeLast,
          storage_client, tmp_files, procLast, rag_config, rag_state, ragLast,
          model_name, embedding_dim, embeddings, embedLast,
          agent_pc, agent_state, agent_trace>>

\* ----------------------------------------------------------------- helpers
Min(a, b) == IF a <= b THEN a ELSE b

\* Python's s[:k] for k >= 0
Slice(s, k) == SubSeq(s, 1, Min(k, Len(s)))

\* A document of the stores: page_content and the metadata process stamps.
Document(content, source, index) ==
    [page_content |-> content, source |-> source, chunk_index |-> index]

\* A document reference: a local path or a gs:// URI.
Ref(remote, slash, stem, ext) ==
    [remote |-> remote, slash |-> slash, stem |-> stem, ext |-> ext]

StoreDocs == { Document(c, Ref(FALSE, TRUE, "doc", "pdf"), 0) : c \in 1..MaxDoc }

Queries == 1..MaxQuery

\* ------------------------------------------------ the two underlying stores
\* Distance of a document to a query: the stores rank by it, nearest first.
Distance(d, q) ==
    IF d.page_content >= q THEN d.page_content - q ELSE q - d.page_content

\* r is ranked for q; d goes after every document at most as far as d.
RankInsert(d, r, q) ==
    LET p == Cardinality({ i \in 1..Len(r) : Distance(r[i], q) <= Distance(d, q) })
    IN  SubSeq(r, 1, p) \o <<d>> \o SubSeq(r, p + 1, Len(r))

RECURSIVE Ranked(_, _)
Ranked(s, q) ==
    IF s = <<>> THEN <<>>
    ELSE RankInsert(s[Len(s)], Ranked(SubSeq(s, 1, Len(s) - 1), q), q)

\* Chroma / PGVector similarity_search(query, k=k): the k nearest, in rank order.
StoreSearch(s, q, k) == Slice(Ranked(s, q), k)

\* Chroma / PGVector add_documents(docs): append.
StoreAdd(s, docs) == s \o docs

\* ------------------------------------------------------- HybridVectorStore
\* len(results) >= k
HotSatisfiesBug(n, k) == n > k
HotSatisfies(n, k) == n >= k

\* remaining = k - len(results)
RemainingBug(k, n) == k
Remaining(k, n) == k - n

\* results + cold_results
ComposeBug(results, cold_results) == cold_results \o results
Compose(results, cold_results) == results \o cold_results

\* if self._cold_store is None: return results
HotOnlyBug(results) == <<>>
HotOnly(results) == results

\* What one call of a store method did.
StoreCall(op, tier, docs, query, k, outcome, result, hot_results, cold_results, cold_calls, cold_k) ==
    [op |-> op, tier |-> tier, docs |-> docs, query |-> query, k |-> k,
     outcome |-> outcome, result |-> result, hot_results |-> hot_results,
     cold_results |-> cold_results, cold_calls |-> cold_calls, cold_k |-> cold_k]

\* The call together with the stores it found.
Observed(call, hot, cold, reachable) ==
    [call |-> call, hot_before |-> hot, cold_before |-> cold, cold_up |-> reachable]

NoCall == StoreCall("none", "hot", <<>>, 0, 0, "ok", <<>>, <<>>, <<>>, 0, 0)

similarity_search(hot, cold, configured, reachable, query, k) ==
    LET results == StoreSearch(hot, query, k) IN
    IF HotSatisfies(Len(results), k)
    THEN StoreCall("search", "hot", <<>>, query, k, "ok", Slice(results, k),
                   results, <<>>, 0, 0)
    ELSE LET remaining == Remaining(k, Len(results)) IN
         IF ~configured
         THEN StoreCall("search", "hot", <<>>, query, k, "ok", HotOnly(results),
                        results, <<>>, 0, 0)
         ELSE IF ~reachable
         THEN StoreCall("search", "hot", <<>>, query, k, "ColdError", <<>>,
                        results, <<>>, 1, remaining)
         ELSE LET cold_results == StoreSearch(cold, query, remaining) IN
              StoreCall("search", "hot", <<>>, query, k, "ok",
                        Compose(results, cold_results),
                        results, cold_results, 1, remaining)

\* The tier add_documents writes for tier = "cold" with no cold store: none, it raises.
ColdWriteTargetBug(configured) == IF configured THEN "cold" ELSE "hot"
ColdWriteTarget(configured) == IF configured THEN "cold" ELSE "raise"

\* add_documents: the outcome and the two stores after the call.
add_documents(hot, cold, configured, reachable, docs, tier) ==
    LET target == IF tier = "hot" THEN "hot" ELSE ColdWriteTarget(configured) IN
    IF target = "hot"
    THEN [outcome |-> "ok", hot |-> StoreAdd(hot, docs), cold |-> cold]
    ELSE IF target = "raise"
    THEN [outcome |-> "ConfigError", hot |-> hot, cold |-> cold]
    ELSE IF ~reachable
    THEN [outcome |-> "ColdError", hot |-> hot, cold |-> cold]
    ELSE [outcome |-> "ok", hot |-> hot, cold |-> StoreAdd(cold, docs)]

\* ------------------------------------------------------- DocumentProcessor
\* The text pdfminer extracts: characters, " " for white space.
Texts == UNION { [1..n -> {" ", "a"}] : n \in 0..MaxText }

\* str.strip()
RECURSIVE Strip(_)
Strip(t) ==
    IF t = <<>> THEN <<>>
    ELSE IF Head(t) = " " THEN Strip(Tail(t))
    ELSE IF t[Len(t)] = " " THEN Strip(SubSeq(t, 1, Len(t) - 1))
    ELSE t

\* str.lower() on an extension
Lower(ext) == IF ext = "PDF" THEN "pdf" ELSE ext

Exts == {"pdf", "PDF", "txt"}

\* tempfile.NamedTemporaryFile(suffix=".pdf", delete=False).name
TmpPath == Ref(FALSE, TRUE, "tmp", "pdf")

\* The exception _ensure_text raises when extract_text raises.
ExtractFailure == "FileProcessingError"

\* _ensure_text(file_path): what it raises ("none": it returns) and the path its
\* message names.
ensure_text(file_path, pdf) ==
    IF pdf.extract_raises
    THEN [raised |-> ExtractFailure, path |-> file_path]
    ELSE IF pdf.text = <<>> \/ Strip(pdf.text) = <<>>
    THEN [raised |-> "OCRRequiredError", path |-> file_path]
    ELSE [raised |-> "none", path |-> file_path]

\* splitter.split_documents(loader.load()): the chunks carry the loader's metadata.
SplitDocuments(file_path, pdf) ==
    [j \in 1..pdf.n_chunks |-> Document(j, file_path, -1)]

\* for i, doc in enumerate(chunks): stamp source and chunk_index
StampBug(chunks, original_source) ==
    [j \in 1..Len(chunks) |-> [chunks[j] EXCEPT !.chunk_index = j - 1]]
Stamp(chunks, original_source) ==
    [j \in 1..Len(chunks) |->
        [chunks[j] EXCEPT !.source = original_source, !.chunk_index = j - 1]]

\* What a call did: the exception it raised ("none": it returned), the chunks it
\* returned, the calls it made in order, the text check's own result.
Done(raised, chunks, trace, check) ==
    [raised |-> raised, chunks |-> chunks, trace |-> trace, check |-> check]

NoCheck == [raised |-> "skipped", path |-> TmpPath]

\* Whether _process_local_pdf goes on to the loader after a check that raised.
LoadsAfter(check) == check.raised = "none"

\* _process_local_pdf after self._ensure_text(file_path) gave check.
LoadAndSplit(check, file_path, original_source, pdf) ==
    IF ~LoadsAfter(check)
    THEN Done(check.raised, <<>>, <<"extract_text">>, check)
    ELSE IF ~pdf.load_ok
    THEN Done("FileProcessingError", <<>>, <<"extract_text", "load">>, check)
    ELSE Done("none", Stamp(SplitDocuments(file_path, pdf), original_source),
              <<"extract_text", "load", "split">>, check)

process_local_pdf(file_path, original_source, pdf) ==
    LoadAndSplit(ensure_text(file_path, pdf), file_path, original_source, pdf)

\* finally: os.remove(tmp_file.name), whether or not the body raised
RemovesTmpBug(raised) == raised = "none"
RemovesTmp(raised) == TRUE

\* The except clauses around the remote branch: GCSConnectionError, FileNotFoundError
\* and ValueError pass, every other exception becomes GCSConnectionError.
Reraise(raised) ==
    IF raised \in {"none", "GCSConnectionError", "FileNotFoundError", "ValueError"}
    THEN raised
    ELSE "GCSConnectionError"

\* The result of process and the temporary files it made and removed.
Out(d, made, removed) == [done |-> d, made |-> made, removed |-> removed]

\* The exception that leaves the finally clause: os.remove raises FileNotFoundError,
\* in place of what the body raised or returned, when the file is not there any more.
AfterRemove(raised, file_there) ==
    IF RemovesTmp(raised) /\ ~file_there THEN "FileNotFoundError" ELSE raised

\* The with block of the remote branch once the body (the download, then
\* _process_local_pdf) gave d and left the temporary file there or not: the finally
\* clause, then the except clauses.
Finally(d, ahead, file_there) ==
    Out(Done(Reraise(AfterRemove(d.raised, file_there)),
             d.chunks,
             ahead \o d.trace \o (IF RemovesTmp(d.raised) THEN <<"remove">> ELSE <<>>),
             d.check),
        {TmpPath}, IF RemovesTmp(d.raised) \/ ~file_there THEN {TmpPath} ELSE {})

\* The local branch once _process_local_pdf gave d.
LocalDone(d) == Out(Done(d.raised, d.chunks, <<"is_file">> \o d.trace, d.check), {}, {})

\* The checks of the remote branch ahead of the temporary file: blob.exists(), then
\* the extension of the object's name.
RemoteCheckBug(ref, exists) ==
    IF Lower(ref.ext) # "pdf" THEN "ValueError"
    ELSE IF ~exists THEN "FileNotFoundError"
    ELSE "none"
RemoteCheck(ref, exists) ==
    IF ~exists THEN "FileNotFoundError"
    ELSE IF Lower(ref.ext) # "pdf" THEN "ValueError"
    ELSE "none"

\* The checks of the local branch: path.suffix.lower(), then path.is_file().
LocalCheckBug(ref, exists) ==
    IF ~exists THEN "FileNotFoundError"
    ELSE IF Lower(ref.ext) # "pdf" THEN "ValueError"
    ELSE "none"
LocalCheck(ref, exists) ==
    IF Lower(ref.ext) # "pdf" THEN "ValueError"
    ELSE IF ~exists THEN "FileNotFoundError"
    ELSE "none"

\* process(file_path_or_uri): the call's result and the temporary file it made and
\* removed.
process(client, pdf) ==
    LET ref == pdf.ref IN
    IF ref.remote
    THEN IF ~client
         THEN Out(Done("GCSConnectionError", <<>>, <<>>, NoCheck), {}, {})
         ELSE IF ~ref.slash
         THEN Out(Done(Reraise("ValueError"), <<>>, <<>>, NoCheck), {}, {})
         ELSE IF pdf.exists_raises
         THEN Out(Done(Reraise(pdf.exc), <<>>, <<"exists">>, NoCheck), {}, {})
         ELSE IF RemoteCheck(ref, pdf.exists) # "none"
         THEN Out(Done(Reraise(RemoteCheck(ref, pdf.exists)), <<>>, <<"exists">>, NoCheck),
                  {}, {})
         ELSE IF ~pdf.tmp_ok
         THEN Out(Done(Reraise(pdf.exc), <<>>, <<"exists", "mktemp">>, NoCheck), {}, {})
         ELSE IF ~pdf.download_ok
         THEN Finally(Done(pdf.exc, <<>>, <<>>, NoCheck),
                      <<"exists", "mktemp", "download">>, ~pdf.download_removes)
         ELSE Finally(process_local_pdf(TmpPath, ref, pdf),
                      <<"exists", "mktemp", "download">>, TRUE)
    ELSE IF LocalCheck(ref, pdf.exists) = "ValueError"
         THEN Out(Done("ValueError", <<>>, <<>>, NoCheck), {}, {})
         ELSE IF LocalCheck(ref, pdf.exists) = "FileNotFoundError"
         THEN Out(Done("FileNotFoundError", <<>>, <<"is_file">>, NoCheck), {}, {})
         ELSE LocalDone(process_local_pdf(ref, ref, pdf))

\* The classes of the exceptions blob.exists(), NamedTemporaryFile and
\* download_to_filename raise, as the except clauses tell them apart.
FailureClasses == {"Exception", "FileNotFoundError", "ValueError"}

\* A reference and what the file system, the bucket and the PDF parsers do with it:
\* exc is the class of the exception of the remote step that fails (exists_raises,
\* ~tmp_ok, ~download_ok), download_removes whether a download that raises has removed
\* the temporary file before it raises.
Pdf(ref, exists, exists_raises, tmp_ok, download_ok, extract_raises, text, load_ok, n_chunks, exc, download_removes) ==
    [ref |-> ref, exists |-> exists, exists_raises |-> exists_raises, tmp_ok |-> tmp_ok,
     download_ok |-> download_ok, extract_raises |-> extract_raises, text |-> text,
     load_ok |-> load_ok, n_chunks |-> n_chunks, exc |-> exc,
     download_removes |-> download_removes]

Refs == { Ref(FALSE, TRUE, "doc", e) : e \in Exts }
            \cup { Ref(TRUE, s, "doc", e) : s \in BOOLEAN, e \in Exts }

Pdfs ==
    { Pdf(r, ex, er, tm, dl, xr, t, lo, n, e, dr) :
        r \in Refs, ex \in BOOLEAN, er \in BOOLEAN, tm \in BOOLEAN, dl \in BOOLEAN,
        xr \in BOOLEAN, t \in Texts, lo \in BOOLEAN, n \in 0..MaxChunks,
        e \in FailureClasses, dr \in BOOLEAN }

\* The remote-only conditions are fixed for a local reference, and the class of a
\* failure and what a failed download leaves behind where no remote step fails.
PdfInputs ==
    { p \in Pdfs :
        /\ p.extract_raises => p.text = <<>>
        /\ ~p.ref.remote => (~p.exists_raises /\ p.tmp_ok /\ p.download_ok)
        /\ (~p.exists_raises /\ p.tmp_ok /\ p.download_ok) => p.exc = "Exception"
        /\ p.download_ok => ~p.download_removes }

NoProcess ==
    [op |-> "none", pdf |-> Pdf(Ref(FALSE, TRUE, "doc", "pdf"), FALSE, FALSE, TRUE, TRUE,
                                FALSE, <<>>, TRUE, 0, "Exception", FALSE),
     done |-> Done("none", <<>>, <<>>, NoCheck), made |-> {}]

\* ------------------------------------------------- rag_load_data_from_gcs
\* RagGraphState; gcs_bucket_name is whether a bucket name is set.
RagGraphState(count, bucket, errors) ==
    [documents_processed_from_gcs |-> count, gcs_bucket_name |-> bucket,
     error_messages |-> errors]

\* config["configurable"] (whether each object is wired) and os.getenv.
RagConfig(processor, store, project, env_bucket) ==
    [document_processor |-> processor, vector_store |-> store,
     GCP_PROJECT_ID |-> project, RAG_GCS_BUCKET_NAME |-> env_bucket]

NoConfig == RagConfig(FALSE, FALSE, FALSE, FALSE)

\* An error message: its text, the document it names and the exception it quotes.
ErrorMsg(text, ref, exc) == [text |-> text, ref |-> ref, exc |-> exc]

NoRef == Ref(FALSE, FALSE, "", "")

\* state.get("gcs_bucket_name") or os.getenv("RAG_GCS_BUCKET_NAME")
BucketName(state, config) == state.gcs_bucket_name \/ config.RAG_GCS_BUCKET_NAME

\* The three checks ahead of the run: the message of the first that fails.
PreconditionErrorBug(state, config) ==
    IF ~config.document_processor \/ ~config.vector_store
    THEN "DocumentProcessor or HybridVectorStore not provided in config."
    ELSE IF ~config.GCP_PROJECT_ID
    THEN "GCP_PROJECT_ID environment variable not set."
    ELSE "none"
PreconditionError(state, config) ==
    IF ~config.document_processor \/ ~config.vector_store
    THEN "DocumentProcessor or HybridVectorStore not provided in config."
    ELSE IF ~config.GCP_PROJECT_ID
    THEN "GCP_PROJECT_ID environment variable not set."
    ELSE IF ~BucketName(state, config)
    THEN "RAG_GCS_BUCKET_NAME not set in environment or provided in state."
    ELSE "none"

\* The run so far: the count, the errors, the stores, the temporary files, the
\* documents handed to process and the batches written, and whether an exception
\* left the loop.
Progress(count, errors, hot, cold, tmp, calls, writes, aborted) ==
    [count |-> count, errors |-> errors, hot |-> hot, cold |-> cold, tmp |-> tmp,
     calls |-> calls, writes |-> writes, aborted |-> aborted]

\* except Exception as e, inside the loop: the message is appended, the loop goes on
OnDocumentErrorBug(acc, ref, exc) ==
    [acc EXCEPT !.errors = Append(@, ErrorMsg("Failed to process document", ref, exc)),
                !.aborted = TRUE]
OnDocumentError(acc, ref, exc) ==
    [acc EXCEPT !.errors = Append(@, ErrorMsg("Failed to process document", ref, exc))]

\* blob.name.lower().endswith(".pdf")
IsPdfNameBug(ref) == ref.ext = "pdf"
IsPdfName(ref) == Lower(ref.ext) = "pdf"

\* vector_store.add_documents(chunks, tier="cold") gave a: the count goes up, or the
\* exception is handled.
Stored(acc, ref, chunks, a) ==
    IF a.outcome # "ok"
    THEN OnDocumentError(acc, ref, a.outcome)
    ELSE [acc EXCEPT !.hot = a.hot, !.cold = a.cold, !.writes = Append(@, chunks),
                     !.count = @ + 1]

\* The call of process is on record, with the temporary files it left.
Called(acc, ref, r) ==
    [acc EXCEPT !.calls = Append(@, ref), !.tmp = (@ \cup r.made) \ r.removed]

\* document_processor.process(gcs_uri) gave r: the try block from there on.
Processed(acc, ref, r, configured, reachable) ==
    IF r.done.raised # "none"
    THEN OnDocumentError(Called(acc, ref, r), ref, r.done.raised)
    ELSE IF r.done.chunks = <<>> THEN Called(acc, ref, r)
    ELSE Stored(Called(acc, ref, r), ref, r.done.chunks,
                add_documents(acc.hot, acc.cold, configured, reachable, r.done.chunks,
                              "cold"))

\* The body of the loop for one blob; nothing once an exception has left the loop.
IngestBlob(acc, blob, client, configured, reachable) ==
    IF acc.aborted \/ ~IsPdfName(blob.ref) THEN acc
    ELSE Processed(acc, blob.ref, process(client, blob), configured, reachable)

\* for blob in blobs: the run after the first n blobs.
RECURSIVE IngestBlobs(_, _, _, _, _, _)
IngestBlobs(acc, blobs, n, client, configured, reachable) ==
    IF n = 0 THEN acc
    ELSE IngestBlob(IngestBlobs(acc, blobs, n - 1, client, configured, reachable),
                    blobs[n], client, configured, reachable)

\* What a run did: the state it returned, the stores and temporary files it left, the
\* number of list calls and of blobs the loop took, the documents it processed and the
\* batches it wrote, and the state object it was given as the run left it.
Run(state, hot, cold, tmp, listings, yielded, calls, writes, given) ==
    [state |-> state, hot |-> hot, cold |-> cold, tmp |-> tmp, listings |-> listings,
     yielded |-> yielded, calls |-> calls, writes |-> writes, given |-> given]

\* except Exception as e, around the loop: an exception of the client's construction
\* or of the listing (raises) is appended.
OuterErrors(acc, raises) ==
    IF acc.aborted \/ ~raises THEN acc.errors
    ELSE Append(acc.errors,
                ErrorMsg("Error listing blobs or during GCS operations", NoRef,
                         "Exception"))

\* current_errors is the list of the state that was given: what the run appends to it
\* is appended to the caller's state.
Given(state, errors) == [state EXCEPT !.error_messages = errors]

\* The return of a run whose try block ended as acc, after listings calls of
\* list_blobs, with an exception (raises) or without.
Returned(acc, state, gcs_bucket_name, listings, yielded, raises) ==
    Run(RagGraphState(acc.count, gcs_bucket_name, OuterErrors(acc, raises)),
        acc.hot, acc.cold, acc.tmp, listings, yielded, acc.calls, acc.writes,
        Given(state, OuterErrors(acc, raises)))

\* rag_load_data_from_gcs(state, config). storage.Client(...) raises (client_raises),
\* or the listing yields blobs and then ends or (listing_raises) raises.
rag_load_data_from_gcs(state, config, hot, cold, tmp, client, configured, reachable, blobs, listing_raises, client_raises) ==
    LET gcs_bucket_name == BucketName(state, config)
        current_errors == state.error_messages
        error_msg == PreconditionError(state, config)
    IN
    IF error_msg # "none"
    THEN Run(RagGraphState(0, gcs_bucket_name,
                           current_errors \o <<ErrorMsg(error_msg, NoRef, "none")>>),
             hot, cold, tmp, 0, 0, <<>>, <<>>, state)
    ELSE IF client_raises
    THEN Returned(Progress(0, current_errors, hot, cold, tmp, <<>>, <<>>, FALSE),
                  state, gcs_bucket_name, 0, 0, TRUE)
    ELSE Returned(IngestBlobs(Progress(0, current_errors, hot, cold, tmp, <<>>, <<>>,
                                       FALSE),
                              blobs, Len(blobs), client, configured, reachable),
                  state, gcs_bucket_name, 1, Len(blobs), listing_raises)

\* ------------------------------------------------------- EmbeddingService
\* The strings a batch is made of.
EmbedTexts == {"a", "b"}

\* The vector lengths the embedding backend gives, by model.
BackendDims == {768, 3072}

ModelNames ==
    {"textembedding-gecko@001", "text-embedding-004", "text-embedding-005",
     "gemini-embedding-001"}

\* TextEmbeddingInput(text, task_type)
TextEmbeddingInput(text, task_type) == [text |-> text, task_type |-> task_type]

\* An embedding of the backend: values, a vector of len numbers computed from input.
TextEmbedding(input, len) == [of |-> input.text, task_type |-> input.task_type, len |-> len]

\* self._model.get_embeddings(inputs): one embedding per input, in the inputs' order.
GetEmbeddings(inputs, len) == [i \in 1..Len(inputs) |-> TextEmbedding(inputs[i], len)]

\* if not texts: return []
SkipsBackendBug(texts) == FALSE
SkipsBackend(texts) == texts = <<>>

\* What a call of embed_texts did: the exception it raised ("ok": it returned), the
\* vectors it returned and the number of calls made on the backend.
EmbedCall(outcome, vectors, backend_calls) ==
    [outcome |-> outcome, vectors |-> vectors, backend_calls |-> backend_calls]

\* embed_texts(texts, task_type) on a backend that answers with vectors of length len
\* (backend_ok) or raises.
embed_texts(texts, task_type, backend_ok, len) ==
    IF SkipsBackend(texts) THEN EmbedCall("ok", <<>>, 0)
    ELSE IF ~backend_ok THEN EmbedCall("Exception", <<>>, 1)
    ELSE EmbedCall("ok",
                   GetEmbeddings([i \in 1..Len(texts) |->
                                     TextEmbeddingInput(texts[i], task_type)], len),
                   1)

\* "004" in self.model_name or "ada" in self.model_name, over ModelNames
HasFallbackMark(name) == name \in {"text-embedding-004"}

\* model_to_dimension
ModelToDimension ==
    {"textembedding-gecko@001", "textembedding-gecko@latest",
     "textembedding-gecko-multilingual@latest", "text-embedding-preview-0409",
     "text-multilingual-embedding-preview-0409"}

\* EmbeddingService.dimension: 768 for the models it knows, None (known = FALSE) else.
dimension(name) ==
    IF HasFallbackMark(name) THEN [known |-> TRUE, value |-> 768]
    ELSE IF name \in ModelToDimension THEN [known |-> TRUE, value |-> 768]
    ELSE [known |-> FALSE, value |-> 0]

\* The vectors a tier holds once the underlying store has embedded n more documents
\* with the embedding function it was constructed with.
Embedded(held, n, len) == held \o [i \in 1..n |-> len]

\* The vectors of both tiers after a call that left the tiers as hot and cold.
EmbeddingsAfter(held, hot_before, cold_before, hot, cold, len) ==
    [hot |-> Embedded(held.hot, Len(hot) - Len(hot_before), len),
     cold |-> Embedded(held.cold, Len(cold) - Len(cold_before), len)]

NoEmbeddings == [hot |-> <<>>, cold |-> <<>>]

NoEmbed ==
    [op |-> "none", texts |-> <<>>, backend_ok |-> TRUE, len |-> 768,
     call |-> EmbedCall("ok", <<>>, 0)]

\* ------------------------------------------------------------ agent graph
\* A message of the state: HumanMessage or AIMessage and its content.
Message(type, content) == [type |-> type, content |-> content]

AIMessage(content) == Message("ai", content)

\* OverallState, the keys the RAG sub-graph is invoked with or writes.
OverallState(messages, use_documents) ==
    [messages |-> messages, use_documents |-> use_documents]

\* add_messages, the reducer of OverallState.messages: the update's messages, new
\* ones, go behind the messages of the state.
add_messages(left, right) == left \o right

\* retrieve_documents(state, config): the update it returns for messages.
retrieve_documents(state) == <<AIMessage("")>>

MessageLists ==
    UNION { [1..n -> { Message(t, c) : t \in {"human", "ai"}, c \in {"", "test"} }] :
              n \in 0..MaxMessages }

NoAgentState == OverallState(<<>>, FALSE)

\* ------------------------------------------------------ SpecIngest actions
\* A gs:// object of the bucket, by what processing it comes to.
Blob(ext, extract_raises, text, n_chunks) ==
    Pdf(Ref(TRUE, TRUE, "doc", ext), TRUE, FALSE, TRUE, TRUE, extract_raises, text, TRUE,
        n_chunks, "Exception", FALSE)

BlobKinds ==
    { Blob("pdf", FALSE, <<"a">>, 1),     \* a valid PDF
      Blob("PDF", FALSE, <<"a">>, 2),     \* a valid PDF, upper-case extension
      Blob("pdf", TRUE, <<>>, 0),         \* a corrupt PDF: the parser raises
      Blob("pdf", FALSE, <<"a">>, 0),     \* a PDF that splits into no chunk
      Blob("txt", FALSE, <<"a">>, 1) }    \* not a PDF by name

Buckets == UNION { [1..n -> BlobKinds] : n \in 0..MaxBlobs }

PriorErrors == { [i \in 1..n |-> ErrorMsg("earlier", NoRef, "none")] : n \in 0..MaxPrior }

NoRun ==
    [op |-> "none", blobs |-> <<>>, listing_raises |-> FALSE, client_raises |-> FALSE,
     entry |-> RagGraphState(0, FALSE, <<>>),
     run |-> Run(RagGraphState(0, FALSE, <<>>), <<>>, <<>>, {}, 0, 0, <<>>, <<>>,
                 RagGraphState(0, FALSE, <<>>))]

InitIngest ==
    /\ hot_store = <<>>
    /\ cold_store = <<>>
    /\ cold_configured \in BOOLEAN
    /\ cold_reachable = TRUE
    /\ storeLast = Observed(NoCall, <<>>, <<>>, TRUE)
    /\ storage_client = TRUE
    /\ tmp_files = {}
    /\ procLast = NoProcess
    /\ rag_config \in { RagConfig(p, s, g, b) :
                          p \in BOOLEAN, s \in BOOLEAN, g \in BOOLEAN, b \in BOOLEAN }
    /\ rag_state \in { RagGraphState(0, b, e) : b \in BOOLEAN, e \in PriorErrors }
    /\ ragLast = NoRun
    /\ model_name = "textembedding-gecko@001"
    /\ embedding_dim = 768
    /\ embeddings = NoEmbeddings
    /\ embedLast = NoEmbed
    /\ agent_pc = "END"
    /\ agent_state = NoAgentState
    /\ agent_trace = <<>>

RagLoadDataFromGcs(blobs, listing_raises, client_raises) ==
    LET r == rag_load_data_from_gcs(rag_state, rag_config, hot_store, cold_store,
                                    tmp_files, storage_client, cold_configured,
                                    cold_reachable, blobs, listing_raises,
                                    client_raises) IN
    /\ ragLast' = [op |-> "run", blobs |-> blobs, listing_raises |-> listing_raises,
                   client_raises |-> client_raises, entry |-> rag_state, run |-> r]
    /\ rag_state' = r.given
    /\ hot_store' = r.hot
    /\ cold_store' = r.cold
    /\ tmp_files' = r.tmp
    /\ embeddings' = EmbeddingsAfter(embeddings, hot_store, cold_store, r.hot, r.cold,
                                     embedding_dim)
    /\ UNCHANGED <<cold_configured, cold_reachable, storeLast, storage_client, procLast,
                   rag_config>>
    /\ UNCHANGED <<model_name, embedding_dim, embedLast>>
    /\ UNCHANGED agentVars

\* The node is run, once in a behaviour, on some bucket; a run whose client cannot be
\* constructed raises ahead of the listing and is given no blob.
CallRagLoadDataFromGcs ==
    /\ ragLast.op = "none"
    /\ \E blobs \in Buckets, listing_raises \in BOOLEAN, client_raises \in BOOLEAN :
          /\ client_raises => (blobs = <<>> /\ listing_raises)
          /\ RagLoadDataFromGcs(blobs, listing_raises, client_raises)

NextIngest == CallRagLoadDataFromGcs

SpecIngest == InitIngest /\ [][NextIngest]_vars

\* ------------------------------------------------------- SpecProc actions
InitProc ==
    /\ hot_store = <<>>
    /\ cold_store = <<>>
    /\ cold_configured = FALSE
    /\ cold_reachable = FALSE
    /\ storeLast = Observed(NoCall, <<>>, <<>>, TRUE)
    /\ storage_client \in BOOLEAN
    /\ tmp_files = {}
    /\ procLast = NoProcess
    /\ rag_config = NoConfig
    /\ rag_state = RagGraphState(0, FALSE, <<>>)
    /\ ragLast = NoRun
    /\ model_name = "textembedding-gecko@001"
    /\ embedding_dim = 768
    /\ embeddings = NoEmbeddings
    /\ embedLast = NoEmbed
    /\ agent_pc = "END"
    /\ agent_state = NoAgentState
    /\ agent_trace = <<>>

Process(pdf) ==
    LET r == process(storage_client, pdf) IN
    /\ procLast' = [op |-> "process", pdf |-> pdf, done |-> r.done, made |-> r.made]
    /\ tmp_files' = (tmp_files \cup r.made) \ r.removed
    /\ UNCHANGED storage_client
    /\ UNCHANGED storeVars
    /\ UNCHANGED ragVars
    /\ UNCHANGED embedVars
    /\ UNCHANGED agentVars

\* The caller is done with the result of the call; the processor is called again.
ProcessReturned ==
    /\ procLast.op = "process"
    /\ procLast' = NoProcess
    /\ UNCHANGED <<storage_client, tmp_files>>
    /\ UNCHANGED storeVars
    /\ UNCHANGED ragVars
    /\ UNCHANGED embedVars
    /\ UNCHANGED agentVars

\* process is called, one call at a time, on some reference.
CallProcess ==
    /\ procLast.op = "none"
    /\ \E pdf \in PdfInputs : Process(pdf)

NextProc ==
    \/ CallProcess
    \/ ProcessReturned

SpecProc == InitProc /\ [][NextProc]_vars

\* ------------------------------------------------------- SpecStore actions
Batches == UNION { [1..n -> StoreDocs] : n \in 0..MaxBatch }

InitStore ==
    /\ hot_store = <<>>
    /\ cold_store = <<>>
    /\ cold_configured \in BOOLEAN
    /\ cold_reachable \in BOOLEAN
    /\ storeLast = Observed(NoCall, <<>>, <<>>, TRUE)
    /\ storage_client = FALSE
    /\ tmp_files = {}
    /\ procLast = NoProcess
    /\ rag_config = NoConfig
    /\ rag_state = RagGraphState(0, FALSE, <<>>)
    /\ ragLast = NoRun
    /\ model_name = "textembedding-gecko@001"
    /\ embedding_dim = 768
    /\ embeddings = NoEmbeddings
    /\ embedLast = NoEmbed
    /\ agent_pc = "END"
    /\ agent_state = NoAgentState
    /\ agent_trace = <<>>

AddDocuments(docs, tier) ==
    LET r == add_documents(hot_store, cold_store, cold_configured, cold_reachable,
                           docs, tier) IN
    /\ hot_store' = r.hot
    /\ cold_store' = r.cold
    /\ storeLast' = Observed(StoreCall("add", tier, docs, 0, 0, r.outcome, <<>>, <<>>,
                                       <<>>, 0, 0),
                             hot_store, cold_store, cold_reachable)
    /\ embeddings' = EmbeddingsAfter(embeddings, hot_store, cold_store, r.hot, r.cold,
                                     embedding_dim)
    /\ UNCHANGED <<cold_configured, cold_reachable>>
    /\ UNCHANGED procVars
    /\ UNCHANGED ragVars
    /\ UNCHANGED <<model_name, embedding_dim, embedLast>>
    /\ UNCHANGED agentVars

SimilaritySearch(query, k) ==
    /\ storeLast' = Observed(similarity_search(hot_store, cold_store, cold_configured,
                                                cold_reachable, query, k),
                             hot_store, cold_store, cold_reachable)
    /\ UNCHANGED <<hot_store, cold_store, cold_configured, cold_reachable>>
    /\ UNCHANGED procVars
    /\ UNCHANGED ragVars
    /\ UNCHANGED embedVars
    /\ UNCHANGED agentVars

\* The remote cold store goes away or comes back.
ColdOutage ==
    /\ storeLast.call.op = "none"
    /\ cold_configured
    /\ cold_reachable' = ~cold_reachable
    /\ UNCHANGED <<hot_store, cold_store, cold_configured, storeLast>>
    /\ UNCHANGED procVars
    /\ UNCHANGED ragVars
    /\ UNCHANGED embedVars
    /\ UNCHANGED agentVars

\* The caller is done with the result of the call; the store is called again.
StoreReturned ==
    /\ storeLast.call.op # "none"
    /\ storeLast' = Observed(NoCall, <<>>, <<>>, TRUE)
    /\ UNCHANGED <<hot_store, cold_store, cold_configured, cold_reachable>>
    /\ UNCHANGED procVars
    /\ UNCHANGED ragVars
    /\ UNCHANGED embedVars
    /\ UNCHANGED agentVars

\* The batches the callers add: those that leave no more than MaxTier documents in
\* a tier.
WithinTiers(r) == Len(r.hot) <= MaxTier /\ Len(r.cold) <= MaxTier

\* The store's methods are called one call at a time.
CallAddDocuments ==
    /\ storeLast.call.op = "none"
    /\ \E docs \in Batches, tier \in {"hot", "cold"} :
          /\ WithinTiers(add_documents(hot_store, cold_store, cold_configured,
                                       cold_reachable, docs, tier))
          /\ AddDocuments(docs, tier)

CallSimilaritySearch ==
    /\ storeLast.call.op = "none"
    /\ \E query \in Queries, k \in 0..MaxK : SimilaritySearch(query, k)

NextStore ==
    \/ CallAddDocuments
    \/ CallSimilaritySearch
    \/ StoreReturned
    \/ ColdOutage

SpecStore == InitStore /\ [][NextStore]_vars

\* ------------------------------------------------------ SpecEmbed actions
EmbedBatches == UNION { [1..n -> EmbedTexts] : n \in 0..MaxTexts }

TaskTypes == {"RETRIEVAL_DOCUMENT", "RETRIEVAL_QUERY"}

\* A service on some model, and a store whose embedding function yields vectors of
\* some length.
InitEmbed ==
    /\ hot_store = <<>>
    /\ cold_store = <<>>
    /\ cold_configured \in BOOLEAN
    /\ cold_reachable = TRUE
    /\ storeLast = Observed(NoCall, <<>>, <<>>, TRUE)
    /\ storage_client = FALSE
    /\ tmp_files = {}
    /\ procLast = NoProcess
    /\ rag_config = NoConfig
    /\ rag_state = RagGraphState(0, FALSE, <<>>)
    /\ ragLast = NoRun
    /\ model_name \in ModelNames
    /\ embedding_dim \in BackendDims
    /\ embeddings = NoEmbeddings
    /\ embedLast = NoEmbed
    /\ agent_pc = "END"
    /\ agent_state = NoAgentState
    /\ agent_trace = <<>>

EmbedTextsCall(texts, task_type, backend_ok, len) ==
    /\ embedLast' = [op |-> "embed", texts |-> texts, backend_ok |-> backend_ok,
                     len |-> len,
                     call |-> embed_texts(texts, task_type, backend_ok, len)]
    /\ UNCHANGED <<model_name, embedding_dim, embeddings>>
    /\ UNCHANGED storeVars
    /\ UNCHANGED procVars
    /\ UNCHANGED ragVars
    /\ UNCHANGED agentVars

\* The caller is done with the vectors; the service is called again.
EmbedReturned ==
    /\ embedLast.op = "embed"
    /\ embedLast' = NoEmbed
    /\ UNCHANGED <<model_name, embedding_dim, embeddings>>
    /\ UNCHANGED storeVars
    /\ UNCHANGED procVars
    /\ UNCHANGED ragVars
    /\ UNCHANGED agentVars

\* embed_texts is called, one call at a time, on some batch and some backend answer.
CallEmbedTexts ==
    /\ embedLast.op = "none"
    /\ storeLast.call.op = "none"
    /\ \E texts \in EmbedBatches, task_type \in TaskTypes, backend_ok \in BOOLEAN,
          len \in BackendDims :
          EmbedTextsCall(texts, task_type, backend_ok, len)

\* The store is written while no call of the service is under way.
CallAddEmbedded ==
    /\ embedLast.op = "none"
    /\ CallAddDocuments

NextEmbed ==
    \/ CallEmbedTexts
    \/ EmbedReturned
    \/ CallAddEmbedded
    \/ StoreReturned

SpecEmbed == InitEmbed /\ [][NextEmbed]_vars

\* ------------------------------------------------------ SpecAgent actions
\* create_rag_graph().invoke(state) on some message list, with or without
\* use_documents.
InitAgent ==
    /\ hot_store = <<>>
    /\ cold_store = <<>>
    /\ cold_configured = FALSE
    /\ cold_reachable = FALSE
    /\ storeLast = Observed(NoCall, <<>>, <<>>, TRUE)
    /\ storage_client = FALSE
    /\ tmp_files = {}
    /\ procLast = NoProcess
    /\ rag_config = NoConfig
    /\ rag_state = RagGraphState(0, FALSE, <<>>)
    /\ ragLast = NoRun
    /\ model_name = "textembedding-gecko@001"
    /\ embedding_dim = 768
    /\ embeddings = NoEmbeddings
    /\ embedLast = NoEmbed
    /\ agent_pc = "START"
    /\ agent_state \in { OverallState(m, u) : m \in MessageLists, u \in BOOLEAN }
    /\ agent_trace = <<>>

\* builder.add_edge(START, "retrieve_documents")
RagStart ==
    /\ agent_pc = "START"
    /\ agent_pc' = "retrieve_documents"
    /\ UNCHANGED <<agent_state, agent_trace>>
    /\ UNCHANGED storeVars
    /\ UNCHANGED procVars
    /\ UNCHANGED ragVars
    /\ UNCHANGED embedVars

\* The node retrieve_documents runs, its update is reduced into the state, and
\* builder.add_edge("retrieve_documents", END) ends the run.
RetrieveDocuments ==
    /\ agent_pc = "retrieve_documents"
    /\ agent_state' = [agent_state EXCEPT
                          !.messages = add_messages(@, retrieve_documents(agent_state))]
    /\ agent_trace' = Append(agent_trace, "retrieve_documents")
    /\ agent_pc' = "END"
    /\ UNCHANGED storeVars
    /\ UNCHANGED procVars
    /\ UNCHANGED ragVars
    /\ UNCHANGED embedVars

NextAgent ==
    \/ RagStart
    \/ RetrieveDocuments

\* The runtime runs every node that is due: an invocation does not stop half-way.
SpecAgent == InitAgent /\ [][NextAgent]_vars /\ WF_vars(NextAgent)

\* ------------------------------------------------- claims on the tiered store
Searched == storeLast.call.op = "search"

\* C1: similarity_search(query, k) returns at most k documents, whatever the two
\* tiers hold and whether or not the cold tier is configured.
C1_AtMostK ==
    Searched => Len(storeLast.call.result) <= storeLast.call.k

\* a search that both tiers contributed to and that filled k
C1_Witness ==
    /\ Searched
    /\ storeLast.call.hot_results # <<>>
    /\ storeLast.call.cold_results # <<>>
    /\ Len(storeLast.call.result) = storeLast.call.k

\* C2: when the hot tier returns k or more documents the search returns exactly the
\* first k of them, in the hot tier's rank order, without one call on the cold tier,
\* so it succeeds even when the configured cold tier is unreachable.
C2_HotSuffices ==
    (Searched /\ Len(storeLast.call.hot_results) >= storeLast.call.k) =>
        /\ storeLast.call.outcome = "ok"
        /\ storeLast.call.cold_calls = 0
        /\ storeLast.call.result =
               SubSeq(Ranked(storeLast.hot_before, storeLast.call.query),
                      1, storeLast.call.k)

\* the hot tier alone filled k >= 2 while the configured cold tier was down
C2_Witness ==
    /\ Searched
    /\ storeLast.call.k >= 2
    /\ Len(storeLast.call.hot_results) >= storeLast.call.k
    /\ storeLast.call.hot_results # storeLast.hot_before
    /\ cold_configured
    /\ ~storeLast.cold_up
    /\ storeLast.call.outcome = "ok"

\* C3: when the hot tier returns fewer than k documents and the cold tier is
\* configured, the cold tier is queried exactly once, for k - hot_count documents, and
\* the search returns the hot results followed by the cold results, each in its own
\* tier's rank order (the search raises only if that cold query raises); with an empty
\* hot tier and at least k documents in the cold tier the result is the cold tier's
\* k nearest.
C3_ColdFillsShortfall ==
    (Searched /\ Len(storeLast.call.hot_results) < storeLast.call.k /\ cold_configured) =>
        LET c == storeLast.call
            hot_results == Slice(Ranked(storeLast.hot_before, c.query), c.k)
            remaining == c.k - Len(hot_results)
            cold_results == Slice(Ranked(storeLast.cold_before, c.query), remaining)
        IN  /\ c.cold_calls = 1
            /\ c.cold_k = remaining
            /\ (c.outcome = "ok") = storeLast.cold_up
            /\ c.outcome = "ok" =>
                  /\ c.result = hot_results \o cold_results
                  /\ (storeLast.hot_before = <<>> /\ Len(storeLast.cold_before) >= c.k) =>
                        /\ Len(c.result) = c.k
                        /\ c.result = Slice(Ranked(storeLast.cold_before, c.query), c.k)

\* one hot result ahead of a cold result that is nearer to the query
C3_Witness ==
    /\ Searched
    /\ cold_configured
    /\ storeLast.call.outcome = "ok"
    /\ Len(storeLast.call.hot_results) = 1
    /\ Len(storeLast.call.cold_results) >= 1
    /\ Distance(storeLast.call.cold_results[1], storeLast.call.query)
          < Distance(storeLast.call.hot_results[1], storeLast.call.query)

\* an empty hot tier, and k documents all from a cold tier that ranks them
C3_WitnessColdOnly ==
    /\ Searched
    /\ storeLast.hot_before = <<>>
    /\ storeLast.call.k = 2
    /\ Len(storeLast.call.result) = 2
    /\ storeLast.call.result # storeLast.cold_before

C5_ColdAddUnconfigured ==
    (storeLast.call.op = "add" /\ storeLast.call.tier = "cold" /\ ~cold_configured) =>
        /\ storeLast.call.outcome = "ConfigError"
        /\ hot_store = storeLast.hot_before
        /\ cold_store = <<>>

\* a cold add of a non-empty batch after the hot tier was filled
C5_Witness ==
    /\ storeLast.call.op = "add"
    /\ storeLast.call.tier = "cold"
    /\ ~cold_configured
    /\ storeLast.call.docs # <<>>
    /\ storeLast.hot_before # <<>>
    /\ storeLast.call.outcome = "ConfigError"

\* -------------------------------------------- claims on the document processor
ProcessCalled == procLast.op = "process"

\* the text check ran and found no text: extraction returned, blank after trimming
NoTextFound ==
    /\ ProcessCalled
    /\ procLast.done.check.raised # "skipped"
    /\ ~procLast.pdf.extract_raises
    /\ Strip(procLast.pdf.text) = <<>>

\* C8: for every reference, local or gs://, whose PDF yields no text in its first
\* pages, process raises OCRRequiredError and neither the loader nor the splitter runs.
C8_NoTextRaisesOCRRequired ==
    NoTextFound =>
        /\ procLast.done.raised = "OCRRequiredError"
        /\ \A i \in 1..Len(procLast.done.trace) :
              procLast.done.trace[i] \notin {"load", "split"}

\* C9: the text check fails with OCRRequiredError both when extraction raises and when
\* the extracted text is blank, and its error names the original reference.
C9_CheckFailsWithOCRRequired ==
    (/\ ProcessCalled
     /\ procLast.done.check.raised # "skipped"
     /\ procLast.pdf.extract_raises \/ Strip(procLast.pdf.text) = <<>>) =>
        /\ procLast.done.check.raised = "OCRRequiredError"
        /\ procLast.done.check.path = procLast.pdf.ref

\* C10: once process has returned or raised, the temporary copy it made of a remote
\* document no longer exists, whichever way the call ended.
C10_TmpFileRemoved ==
    /\ tmp_files = {}
    /\ (ProcessCalled /\ procLast.made # {}) =>
          procLast.done.trace[Len(procLast.done.trace)] = "remove"

\* a remote call that made its temporary copy and then raised out of the text check
C10_Witness ==
    /\ ProcessCalled
    /\ procLast.pdf.ref.remote
    /\ procLast.made = {TmpPath}
    /\ procLast.done.check.raised = "OCRRequiredError"
    /\ procLast.done.raised # "none"
    /\ TmpPath \notin tmp_files

C10_WitnessDownloadFailed ==
    /\ ProcessCalled
    /\ procLast.made = {TmpPath}
    /\ ~procLast.pdf.download_ok
    /\ ~procLast.pdf.download_removes
    /\ TmpPath \notin tmp_files

\* a download that removed the temporary copy itself before it raised
C10_WitnessDownloadRemoved ==
    /\ ProcessCalled
    /\ procLast.made = {TmpPath}
    /\ procLast.pdf.download_removes
    /\ procLast.done.raised = "FileNotFoundError"
    /\ TmpPath \notin tmp_files

C10_WitnessParserFailed ==
    /\ ProcessCalled
    /\ procLast.made = {TmpPath}
    /\ procLast.done.check.raised = "none"
    /\ ~procLast.pdf.load_ok
    /\ procLast.done.raised # "none"
    /\ TmpPath \notin tmp_files

C10_WitnessChunked ==
    /\ ProcessCalled
    /\ procLast.made = {TmpPath}
    /\ procLast.done.raised = "none"
    /\ Len(procLast.done.chunks) = MaxChunks
    /\ TmpPath \notin tmp_files

\* The parsers ran: none of them did when this is false.
ParsersRan ==
    \E i \in 1..Len(procLast.done.trace) :
        procLast.done.trace[i] \in {"extract_text", "load", "split"}

\* C11: the chunks process returns carry chunk_index 0, 1, ..., n-1 in sequence order
\* and, each of them, the reference process was given as source, never the temporary
\* local path of a remote document.
C11_ChunksStamped ==
    (ProcessCalled /\ procLast.done.raised = "none") =>
        \A j \in 1..Len(procLast.done.chunks) :
            /\ procLast.done.chunks[j].chunk_index = j - 1
            /\ procLast.done.chunks[j].source = procLast.pdf.ref
            /\ procLast.done.chunks[j].source # TmpPath

\* a remote document, processed from its temporary copy into MaxChunks chunks
C11_Witness ==
    /\ ProcessCalled
    /\ procLast.pdf.ref.remote
    /\ procLast.made = {TmpPath}
    /\ procLast.done.raised = "none"
    /\ Len(procLast.done.chunks) = MaxChunks
    /\ procLast.done.chunks[MaxChunks].chunk_index = MaxChunks - 1

\* C12: for a local reference process raises ValueError (UnsupportedFormat) when the
\* extension is not .pdf in any letter case, whether or not the file exists, and
\* FileNotFoundError (NotFound) when the extension is .pdf and the path is no regular
\* file; in both cases no text is extracted, nothing is loaded and nothing is split.
C12_LocalChecks ==
    (ProcessCalled /\ ~procLast.pdf.ref.remote) =>
        /\ procLast.pdf.ref.ext \notin {"pdf", "PDF"} =>
              (procLast.done.raised = "ValueError" /\ ~ParsersRan)
        /\ (procLast.pdf.ref.ext \in {"pdf", "PDF"} /\ ~procLast.pdf.exists) =>
              (procLast.done.raised = "FileNotFoundError" /\ ~ParsersRan)

\* a local reference that is no PDF by name and names no file
C12_Witness ==
    /\ ProcessCalled
    /\ ~procLast.pdf.ref.remote
    /\ procLast.pdf.ref.ext = "txt"
    /\ ~procLast.pdf.exists
    /\ procLast.done.raised = "ValueError"

\* a local reference with an upper-case .PDF extension that names no file
C12_WitnessMissing ==
    /\ ProcessCalled
    /\ ~procLast.pdf.ref.remote
    /\ procLast.pdf.ref.ext = "PDF"
    /\ ~procLast.pdf.exists
    /\ procLast.done.raised = "FileNotFoundError"

\* The bucket of a remote reference answers: there is a client, the reference names
\* an object, and the existence check returns.
BucketReachable ==
    /\ procLast.pdf.ref.remote
    /\ storage_client
    /\ procLast.pdf.ref.slash
    /\ ~procLast.pdf.exists_raises

\* C13: for a remote reference whose bucket answers, process raises FileNotFoundError
\* (NotFound, not GCSConnectionError) when the object is absent and ValueError
\* (UnsupportedFormat) when the object exists under a name that does not end in .pdf;
\* in both cases no download is attempted and no temporary file is made.
C13_RemoteChecks ==
    (ProcessCalled /\ BucketReachable) =>
        /\ ~procLast.pdf.exists => procLast.done.raised = "FileNotFoundError"
        /\ (procLast.pdf.exists /\ procLast.pdf.ref.ext \notin {"pdf", "PDF"}) =>
              procLast.done.raised = "ValueError"
        /\ (~procLast.pdf.exists \/ procLast.pdf.ref.ext \notin {"pdf", "PDF"}) =>
              /\ procLast.made = {}
              /\ \A i \in 1..Len(procLast.done.trace) :
                    procLast.done.trace[i] \notin {"mktemp", "download"}

\* an absent object that is no PDF by name either: NotFound comes first
C13_Witness ==
    /\ ProcessCalled
    /\ BucketReachable
    /\ ~procLast.pdf.exists
    /\ procLast.pdf.ref.ext = "txt"
    /\ procLast.done.raised = "FileNotFoundError"
    /\ procLast.done.trace = <<"exists">>

\* an object that exists under a name that is no PDF's
C13_WitnessUnsupported ==
    /\ ProcessCalled
    /\ BucketReachable
    /\ procLast.pdf.exists
    /\ procLast.pdf.ref.ext = "txt"
    /\ procLast.done.raised = "ValueError"

\* The call failed in reaching the remote document: no client, an existence check
\* that raised, or a download that raised.
RemoteAccessFailed ==
    /\ procLast.pdf.ref.remote
    /\ \/ ~storage_client
       \/ procLast.pdf.ref.slash /\ procLast.pdf.exists_raises
       \/ /\ procLast.done.trace # <<>>
          /\ procLast.done.trace[Len(procLast.done.trace)] = "remove"
          /\ ~procLast.pdf.download_ok

\* The download returned and then a parser raised: extract_text, or the loader.
ParserFailedAfterDownload ==
    /\ procLast.pdf.ref.remote
    /\ procLast.made = {TmpPath}
    /\ procLast.pdf.download_ok
    /\ procLast.pdf.extract_raises \/ (procLast.done.check.raised = "none" /\ ~procLast.pdf.load_ok)

\* The download was attempted and raised.
DownloadFailed ==
    /\ procLast.pdf.ref.remote
    /\ procLast.made = {TmpPath}
    /\ ~procLast.pdf.download_ok

\* C17: process raises GCSConnectionError (ConnectivityError) only when reaching the
\* remote document failed, a failed download surfaces as GCSConnectionError, and a
\* parser failure after a successful download surfaces as FileProcessingError
\* (ProcessingError).
C17_ConnectivityOnlyForRemoteAccess ==
    ProcessCalled =>
        /\ procLast.done.raised = "GCSConnectionError" => RemoteAccessFailed
        /\ DownloadFailed => procLast.done.raised = "GCSConnectionError"
        /\ ParserFailedAfterDownload => procLast.done.raised = "FileProcessingError"

\* ------------------------------------------------ claims on the bulk ingestion
RunDone == ragLast.op = "run"

\* The run's preconditions, from its inputs.
Wired == rag_config.document_processor /\ rag_config.vector_store
BucketResolvable == ragLast.entry.gcs_bucket_name \/ rag_config.RAG_GCS_BUCKET_NAME
PassedPreconditions == Wired /\ rag_config.GCP_PROJECT_ID /\ BucketResolvable

\* The blobs of the run's bucket that are PDFs by name, by position.
PdfPositions == { i \in 1..Len(ragLast.blobs) : ragLast.blobs[i].ref.ext \in {"pdf", "PDF"} }

\* What processing and storing one blob on its own comes to: process raises or, with
\* chunks to write, the cold tier cannot take them; or the chunks are stored; or there
\* is no chunk.
Fate(d) ==
    IF d.raised # "none" THEN "fails"
    ELSE IF d.chunks = <<>> THEN "empty"
    ELSE IF cold_configured /\ cold_reachable THEN "stores"
    ELSE "fails"
StoresAlone(blob) == Fate(process(storage_client, blob).done) = "stores"
FailsAlone(blob) == Fate(process(storage_client, blob).done) = "fails"

NewErrors ==
    SubSeq(ragLast.run.state.error_messages, Len(ragLast.entry.error_messages) + 1,
           Len(ragLast.run.state.error_messages))

\* C6: in a run that passed its preconditions every PDF is handed to process, in
\* listing order, whatever became of the PDFs before it; the run returns as processed
\* count the number of PDFs that process and store, and one new error entry for each
\* PDF that fails (and one more when the client's construction or the listing itself
\* raised).
C6_FailureDoesNotAbort ==
    (RunDone /\ PassedPreconditions) =>
        LET good == { i \in PdfPositions : StoresAlone(ragLast.blobs[i]) }
            bad == { i \in PdfPositions : FailsAlone(ragLast.blobs[i]) }
        IN  /\ Len(ragLast.run.calls) = Cardinality(PdfPositions)
            /\ ragLast.run.state.documents_processed_from_gcs = Cardinality(good)
            /\ Len(NewErrors) =
                  Cardinality(bad) + (IF ragLast.listing_raises THEN 1 ELSE 0)
            /\ \A j \in 1..Cardinality(bad) :
                  NewErrors[j].text = "Failed to process document"

\* three valid PDFs behind a corrupt one: 3 processed, 1 error
C6_Witness ==
    /\ RunDone
    /\ PassedPreconditions
    /\ ~ragLast.listing_raises
    /\ Len(ragLast.blobs) = 4
    /\ ragLast.blobs[1].extract_raises
    /\ ragLast.run.state.documents_processed_from_gcs = 3
    /\ Len(NewErrors) = 1

\* C7: when the processor or the store is not wired, or no bucket name is set in the
\* state or the environment, the run appends exactly one error, returns a processed
\* count of 0, and lists no bucket, processes no document and writes to no store.
C7_PreconditionFailure ==
    (RunDone /\ (~Wired \/ ~BucketResolvable)) =>
        /\ ragLast.run.state.documents_processed_from_gcs = 0
        /\ Len(NewErrors) = 1
        /\ SubSeq(ragLast.run.state.error_messages, 1, Len(ragLast.entry.error_messages))
              = ragLast.entry.error_messages
        /\ ragLast.run.listings = 0
        /\ ragLast.run.yielded = 0
        /\ ragLast.run.calls = <<>>
        /\ ragLast.run.writes = <<>>
        /\ hot_store = <<>>
        /\ cold_store = <<>>

\* everything wired, a configured cold tier and valid PDFs in the bucket, but no
\* bucket name
C7_Witness ==
    /\ RunDone
    /\ Wired
    /\ rag_config.GCP_PROJECT_ID
    /\ ~BucketResolvable
    /\ cold_configured
    /\ Len(ragLast.blobs) >= 2
    /\ StoresAlone(ragLast.blobs[1])
    /\ ragLast.entry.error_messages # <<>>
    /\ Len(NewErrors) = 1

\* the processor is not wired
C7_WitnessNotWired ==
    /\ RunDone
    /\ ~rag_config.document_processor
    /\ BucketResolvable
    /\ Len(ragLast.blobs) >= 1
    /\ Len(NewErrors) = 1

\* The PDFs of the run's bucket, in listing order, and the chunk batches they come to.
PdfBlobs == SelectSeq(ragLast.blobs, LAMBDA b : b.ref.ext \in {"pdf", "PDF"})
EmptyAlone(blob) == Fate(process(storage_client, blob).done) = "empty"

RECURSIVE Flatten(_)
Flatten(batches) ==
    IF batches = <<>> THEN <<>> ELSE Head(batches) \o Flatten(Tail(batches))

\* C18: on return from a run that passed its preconditions and whose listing ended,
\* processed count + errors appended + PDFs of zero chunks = objects named .pdf in
\* any letter case; the objects of other names are never processed and change
\* neither the count nor the errors (the run returns what it returns on the PDFs
\* alone); the chunks written are in the cold tier and the hot tier is untouched; the
\* errors of the entry state are a prefix of the errors returned.
C18_IngestionAccounting ==
    (RunDone /\ PassedPreconditions /\ ~ragLast.listing_raises) =>
        LET empty == { i \in PdfPositions : EmptyAlone(ragLast.blobs[i]) }
            alone == rag_load_data_from_gcs(ragLast.entry, rag_config, <<>>, <<>>, {},
                                            storage_client, cold_configured,
                                            cold_reachable, PdfBlobs, FALSE, FALSE)
        IN  /\ ragLast.run.state.documents_processed_from_gcs + Len(NewErrors)
                  + Cardinality(empty) = Cardinality(PdfPositions)
            /\ ragLast.run.calls = [j \in 1..Len(PdfBlobs) |-> PdfBlobs[j].ref]
            /\ ragLast.run.state = alone.state
            /\ hot_store = <<>>
            /\ cold_store = Flatten(ragLast.run.writes)
            /\ Len(ragLast.run.writes) = ragLast.run.state.documents_processed_from_gcs
            /\ SubSeq(ragLast.run.state.error_messages, 1, Len(ragLast.entry.error_messages))
                  = ragLast.entry.error_messages

\* a bucket of a corrupt PDF, a PDF of no chunk, a text file and an upper-case .PDF,
\* run with errors in the entry state: 1 processed, 1 error, 1 empty, 3 PDFs
C18_Witness ==
    /\ RunDone
    /\ PassedPreconditions
    /\ ~ragLast.listing_raises
    /\ ragLast.entry.error_messages # <<>>
    /\ Len(ragLast.blobs) = 4
    /\ ragLast.blobs[1].extract_raises
    /\ EmptyAlone(ragLast.blobs[2])
    /\ ragLast.blobs[3].ref.ext = "txt"
    /\ ragLast.blobs[4].ref.ext = "PDF"
    /\ ragLast.run.state.documents_processed_from_gcs = 1
    /\ Len(NewErrors) = 1
    /\ Len(cold_store) = 2

\* ----------------------------------------- claims on the embedding service
EmbedCalled == embedLast.op = "embed"

\* C15: embed_texts returns one vector per input text, in input order, for every
\* non-empty batch on which the backend call succeeds, and for an empty batch returns
\* the empty sequence without raising and without a call on the backend.
C15_OneVectorPerText ==
    EmbedCalled =>
        /\ (embedLast.texts # <<>> /\ embedLast.backend_ok) =>
              /\ embedLast.call.outcome = "ok"
              /\ Len(embedLast.call.vectors) = Len(embedLast.texts)
              /\ \A i \in 1..Len(embedLast.texts) :
                    embedLast.call.vectors[i].of = embedLast.texts[i]
        /\ embedLast.texts = <<>> =>
              /\ embedLast.call.outcome = "ok"
              /\ embedLast.call.vectors = <<>>
              /\ embedLast.call.backend_calls = 0

\* a batch of MaxTexts texts, the same text twice and another one behind it
C15_Witness ==
    /\ EmbedCalled
    /\ Len(embedLast.texts) = MaxTexts
    /\ embedLast.texts[1] = embedLast.texts[2]
    /\ embedLast.texts[MaxTexts] # embedLast.texts[1]
    /\ embedLast.call.outcome = "ok"
    /\ Len(embedLast.call.vectors) = MaxTexts

\* an empty batch on a backend that would raise
C15_WitnessEmpty ==
    /\ EmbedCalled
    /\ embedLast.texts = <<>>
    /\ ~embedLast.backend_ok
    /\ embedLast.call.outcome = "ok"

\* C14: the tiered store rejects, on add to either tier, a chunk whose vector length
\* differs from the declared dimensionality of the active model, so every vector a
\* tier holds has that length.
C14_StoreRejectsMismatch ==
    dimension(model_name).known =>
        /\ \A i \in 1..Len(embeddings.hot) :
              embeddings.hot[i] = dimension(model_name).value
        /\ \A i \in 1..Len(embeddings.cold) :
              embeddings.cold[i] = dimension(model_name).value
        /\ (/\ storeLast.call.op = "add"
            /\ storeLast.call.docs # <<>>
            /\ embedding_dim # dimension(model_name).value) =>
              storeLast.call.outcome # "ok"

\* ---------------------------------------------------- the RAG sub-graph
\* An invocation of the sub-graph runs retrieve_documents once and ends, and the last
\* message of the state it ends with has "" as content, whatever the messages it
\* started with.
RagSubGraphEndsWithEmptyAnswer ==
    /\ [](agent_pc = "END" =>
            /\ agent_trace = <<"retrieve_documents">>
            /\ agent_state.messages # <<>>
            /\ agent_state.messages[Len(agent_state.messages)].content = "")
    /\ ((agent_pc = "START") ~> (agent_pc = "END"))

\* an invocation that started from messages ending in a non-empty one
RagSubGraphEnded ==
    /\ agent_pc = "END"
    /\ Len(agent_state.messages) = MaxMessages + 1
    /\ agent_state.messages[MaxMessages].content = "test"
    /\ agent_state.messages[MaxMessages + 1] = AIMessage("")
    /\ agent_trace = <<"retrieve_documents">>

====
